---- MODULE Spec2Model ----
(***************************************************************************)
(* BaseEntity (storage/entities/base_entity.js): the filter map built by   *)
(* addFilter, its introspection by getFilters, and the compilation of      *)
(* filter criteria into a clause by parseFilters.                          *)
(*                                                                         *)
(* A JavaScript string is a sequence of tokens (a token is a TLA+ string   *)
(* holding one or more characters), so that concatenation, join and the    *)
(* template literals of the source are computed, not assumed.  A           *)
(* JavaScript object is its property list in creation order: a sequence    *)
(* of [key, value] records with pairwise distinct keys.                    *)
(***************************************************************************)
EXTENDS Integers, Sequences, FiniteSets, TLC

VARIABLES
    filters,       \* this.filters: the entity's filter map (a JS object)
    pc,            \* the caller's position: "idle", or "returned" from a call
    call,          \* the method called last and its arguments
    result,        \* what that call returned or threw
    filterString,  \* parseFilters' local filterString when it returned
    adapter,       \* the arguments parseFilters gave adapter.parseQueryComponent
    log            \* history: the addFilter calls made so far, in order

vars == <<filters, pc, call, result, filterString, adapter, log>>

(***************************************************************************)
(* Bounds of the model.                                                    *)
(***************************************************************************)
\* addFilter calls in a behaviour of Spec
MaxCalls == 2
\* addFilter calls in a behaviour of QuerySpec
MaxDeclared == 1
\* groups in a GroupList
MaxGroups == 2
\* keys in one criteria, over all its groups
MaxProps == 3

(***************************************************************************)
(* JavaScript values.                                                      *)
(***************************************************************************)
undefined == <<"#undefined">>
null == <<"#null">>

\* the falsy test of `options.realName || filterName` and `if (filterString)`
Truthy(v) == v # undefined /\ v # null /\ v # <<>>

RECURSIVE join(_, _)
\* Array.prototype.join: undefined and null elements are joined as ''
join(arr, sep) ==
    IF arr = <<>> THEN <<>>
    ELSE LET first == IF Head(arr) \in {undefined, null} THEN <<>> ELSE Head(arr)
         IN  IF Len(arr) = 1 THEN first
             ELSE first \o <<sep>> \o join(Tail(arr), sep)

\* object[key]: the property's value, undefined when the object has none
Get(object, key) ==
    IF \E i \in DOMAIN object : object[i].key = key
    THEN object[CHOOSE i \in DOMAIN object : object[i].key = key].value
    ELSE undefined

\* object[key] = value: an existing property keeps its place
Put(object, key, value) ==
    IF \E i \in DOMAIN object : object[i].key = key
    THEN [i \in DOMAIN object |->
            IF object[i].key = key THEN [key |-> key, value |-> value]
            ELSE object[i]]
    ELSE Append(object, [key |-> key, value |-> value])

\* the decimal digits, as tokens, with their values
DigitValue ==
    [d \in {"0", "1", "2", "3", "4", "5", "6", "7", "8", "9"} |->
        CASE d = "0" -> 0 [] d = "1" -> 1 [] d = "2" -> 2 [] d = "3" -> 3
          [] d = "4" -> 4 [] d = "5" -> 5 [] d = "6" -> 6 [] d = "7" -> 7
          [] d = "8" -> 8 [] d = "9" -> 9]

\* a property key that is a canonical array index (here: one digit)
IsArrayIndex(key) == Len(key) = 1 /\ key[1] \in DOMAIN DigitValue

IndexOf(key) == DigitValue[key[1]]

RECURSIVE SelectKeys(_, _)
\* the keys of a property list, in creation order, that are (or are not) indices
SelectKeys(object, wantIndex) ==
    IF object = <<>> THEN <<>>
    ELSE IF IsArrayIndex(Head(object).key) = wantIndex
         THEN <<Head(object).key>> \o SelectKeys(Tail(object), wantIndex)
         ELSE SelectKeys(Tail(object), wantIndex)

RECURSIVE Ascending(_)
\* index keys sorted by numeric value
Ascending(keys) ==
    IF keys = <<>> THEN <<>>
    ELSE LET m == CHOOSE i \in DOMAIN keys :
                      \A j \in DOMAIN keys : IndexOf(keys[i]) <= IndexOf(keys[j])
         IN  <<keys[m]>> \o
             Ascending([i \in 1..(Len(keys) - 1) |->
                           IF i < m THEN keys[i] ELSE keys[i + 1]])

\* Object.keys: array-index keys in ascending numeric order, then the other
\* string keys in creation order
ObjectKeys(object) ==
    Ascending(SelectKeys(object, TRUE)) \o SelectKeys(object, FALSE)

(***************************************************************************)
(* filter_types.js and errors.js: required by the entity.                  *)
(***************************************************************************)
filterTypes ==
    [BOOLEAN |-> <<"BOOLEAN">>, TEXT |-> <<"TEXT">>,
     NUMBER |-> <<"NUMBER">>, BINARY |-> <<"BINARY">>]

NonSupportedFilterTypeError == <<"NonSupportedFilterTypeError">>

NoError == <<"#none">>

(***************************************************************************)
(* addFilter                                                               *)
(***************************************************************************)
\* `"${fieldName}" <op> ${<placeholder>}`
Compare(fieldName, op, placeholder) ==
    <<"\"">> \o fieldName \o <<"\"", " ", op, " ", "${">> \o placeholder \o <<"}">>

\* `"${fieldName}" <op> DECODE(${<placeholder>}, 'hex')`
CompareDecoded(fieldName, op, placeholder) ==
    <<"\"">> \o fieldName \o <<"\"", " ", op, " ", "DECODE(", "${">>
        \o placeholder \o <<"}", ", 'hex')">>

\* `"${column}" IN (${<placeholder>:csv})`
InList(column, placeholder) ==
    <<"\"">> \o column \o <<"\"", " ", "IN", " ", "(", "${">>
        \o placeholder \o <<":csv", "}", ")">>

RECURSIVE setFilters(_, _)
\* the setFilter calls of one case of the switch, in order
setFilters(object, entries) ==
    IF entries = <<>> THEN object
    ELSE setFilters(Put(object, Head(entries)[1], Head(entries)[2]), Tail(entries))

caseBOOLEAN(filterName, fieldName) ==
    << <<filterName, Compare(fieldName, "=", filterName)>>,
       <<filterName \o <<"_eql">>, Compare(fieldName, "=", filterName)>>,
       <<filterName \o <<"_neql">>, Compare(fieldName, "<>", filterName)>> >>

\* variant: the TEXT case with the _like variant forgotten
caseTEXT_noLike(filterName, fieldName) ==
    << <<filterName, Compare(fieldName, "=", filterName)>>,
       <<filterName \o <<"_eql">>, Compare(fieldName, "=", filterName)>>,
       <<filterName \o <<"_neql">>, Compare(fieldName, "<>", filterName)>>,
       <<filterName \o <<"_in">>, InList(filterName, filterName \o <<"_in">>)>> >>

caseTEXT(filterName, fieldName) ==
    << <<filterName, Compare(fieldName, "=", filterName)>>,
       <<filterName \o <<"_eql">>, Compare(fieldName, "=", filterName)>>,
       <<filterName \o <<"_neql">>, Compare(fieldName, "<>", filterName)>>,
       <<filterName \o <<"_in">>, InList(filterName, filterName \o <<"_in">>)>>,
       <<filterName \o <<"_like">>,
         Compare(filterName, "LIKE", filterName \o <<"_like">>)>> >>

caseNUMBER(filterName, fieldName) ==
    << <<filterName, Compare(fieldName, "=", filterName)>>,
       <<filterName \o <<"_eql">>, Compare(fieldName, "=", filterName)>>,
       <<filterName \o <<"_neql">>, Compare(fieldName, "<>", filterName)>>,
       <<filterName \o <<"_gt">>, Compare(fieldName, ">", filterName)>>,
       <<filterName \o <<"_gte">>, Compare(fieldName, ">=", filterName)>>,
       <<filterName \o <<"_lt">>, Compare(fieldName, "<", filterName)>>,
       <<filterName \o <<"_lte">>, Compare(fieldName, "<=", filterName)>>,
       <<filterName \o <<"_in">>, InList(filterName, filterName \o <<"_in">>)>> >>

caseBINARY(filterName, fieldName) ==
    << <<filterName, CompareDecoded(fieldName, "=", filterName)>>,
       <<filterName \o <<"_eql">>, CompareDecoded(fieldName, "=", filterName)>>,
       <<filterName \o <<"_neql">>, CompareDecoded(fieldName, "<>", filterName)>> >>

\* variant: a default case that registers the base variant before it throws
caseDefault_registersBase(object, filterName, fieldName, filterType) ==
    [filters |-> Put(object, filterName, Compare(fieldName, "=", filterName)),
     thrown |-> NonSupportedFilterTypeError]

\* default: throw new NonSupportedFilterTypeError(filterType)
caseDefault(object, filterName, fieldName, filterType) ==
    [filters |-> object, thrown |-> NonSupportedFilterTypeError]

\* addFilter(filterName, filterType = filterTypes.NUMBER, options = {}):
\* the filter map it leaves and the error it throws
addFilter(object, filterName, filterTypeArg, options) ==
    LET filterType == IF filterTypeArg = undefined THEN filterTypes.NUMBER
                      ELSE filterTypeArg
        fieldName == IF Truthy(options.realName) THEN options.realName
                     ELSE filterName
        done(entries) == [filters |-> setFilters(object, entries), thrown |-> NoError]
    IN  CASE filterType = filterTypes.BOOLEAN -> done(caseBOOLEAN(filterName, fieldName))
          [] filterType = filterTypes.TEXT -> done(caseTEXT(filterName, fieldName))
          [] filterType = filterTypes.NUMBER -> done(caseNUMBER(filterName, fieldName))
          [] filterType = filterTypes.BINARY -> done(caseBINARY(filterName, fieldName))
          [] OTHER -> caseDefault(object, filterName, fieldName, filterType)

\* getFilters(): Object.keys(this.filters)
getFilters(object) == ObjectKeys(object)

(***************************************************************************)
(* parseFilters                                                            *)
(***************************************************************************)
\* A criteria argument is [typeOf, elems]: typeOf "object" is a Group and
\* elems its property list; typeOf "array" is a GroupList and elems the
\* sequence of its Groups' property lists; typeOf "string" is a primary key.

\* what adapter.parseQueryComponent returns: the adapter is outside the entity
adapterOutput == <<"<parseQueryComponent>">>

NoCall == [template |-> null, values |-> null]

\* variant: a parseFilterObject that writes each value after its template
parseFilterObject_inlinesValues(this, object) ==
    LET keys == ObjectKeys(object)
    IN  join([i \in 1..Len(keys) |->
                 IF Get(this, keys[i]) = undefined THEN undefined
                 ELSE Get(this, keys[i]) \o Get(object, keys[i])],
             " AND ")

\* variant: a parseFilterObject that joins a group's templates with ' OR '
parseFilterObject_joinsWithOr(this, object) ==
    LET keys == ObjectKeys(object)
    IN  join([i \in 1..Len(keys) |-> Get(this, keys[i])], " OR ")

\* parseFilterObject:
\* Object.keys(object).map(key => this.filters[key]).join(' AND ')
parseFilterObject(this, object) ==
    LET keys == ObjectKeys(object)
    IN  join([i \in 1..Len(keys) |-> Get(this, keys[i])], " AND ")

\* variant: a list branch that joins the groups with ' AND '
parseFilterList_joinsWithAnd(this, list) ==
    join([i \in 1..Len(list) |-> parseFilterObject(this, list[i])], " AND ")

\* filters.map(filterObject => parseFilterObject(filterObject)).join(' OR ')
parseFilterList(this, list) ==
    join([i \in 1..Len(list) |-> parseFilterObject(this, list[i])], " OR ")

\* variant: a test that takes the empty clause for a clause
hasFilterString_notNull(s) == s # null

\* if (filterString)
hasFilterString(s) == Truthy(s)

\* parseFilters(filters): its return value, its local filterString and the
\* arguments it gives the adapter (this stands for this.filters)
parseFilters(this, criteria) ==
    LET s == IF criteria.typeOf = "array" THEN parseFilterList(this, criteria.elems)
             ELSE IF criteria.typeOf = "object"
                  THEN parseFilterObject(this, criteria.elems)
                  ELSE null
    IN  IF hasFilterString(s)
        THEN [value |-> <<"WHERE ">> \o adapterOutput, filterString |-> s,
              adapter |-> [template |-> s, values |-> criteria]]
        ELSE [value |-> <<>>, filterString |-> s, adapter |-> NoCall]

(***************************************************************************)
(* Inputs                                                                  *)
(***************************************************************************)
\* filter names; "7" is a name that is also a canonical array index
FilterNames == { <<"a">>, <<"7">> }

\* the filterType argument: the four types, an unsupported one, or left out
TypeArgs ==
    { filterTypes.BOOLEAN, filterTypes.TEXT, filterTypes.NUMBER,
      filterTypes.BINARY, <<"DATE">>, undefined }

\* the options argument: {} or { realName: 'col' }
OptionArgs == { [realName |-> undefined], [realName |-> <<"col">>] }

\* the declarations of the entities that QuerySpec queries: with and without
\* the _gte and _lte variants
QueryTypeArgs == { filterTypes.BOOLEAN, filterTypes.NUMBER }

Values == { <<"v1">>, <<"v2">> }

\* the criteria keys tried for filter name X
KeyPool(X) == { X, X \o <<"_gte">>, X \o <<"_lte">> }

\* sequences of pairwise distinct keys of KeyPool(X), at most n of them
KeySeqs(X, n) ==
    UNION { { ks \in [1..m -> KeyPool(X)] :
                \A i, j \in 1..m : i # j => ks[i] # ks[j] } : m \in 0..n }

\* the Group that supplies the keys ks, in that order, each with value v
GroupOf(ks, v) == [i \in 1..Len(ks) |-> [key |-> ks[i], value |-> v]]

RECURSIVE TotalLen(_)
TotalLen(ss) == IF ss = <<>> THEN 0 ELSE Len(Head(ss)) + TotalLen(Tail(ss))

Groups ==
    { [typeOf |-> "object", elems |-> GroupOf(ks, v)] :
        ks \in UNION { KeySeqs(X, MaxProps) : X \in FilterNames }, v \in Values }

GroupLists ==
    UNION { { [typeOf |-> "array",
               elems |-> [i \in 1..n |-> GroupOf(kss[i], v)]] :
                kss \in { l \in [1..n -> KeySeqs(X, MaxProps)] : TotalLen(l) <= MaxProps },
                v \in Values } :
            n \in 0..MaxGroups, X \in FilterNames }

Criteria == Groups \cup GroupLists \cup { [typeOf |-> "string", elems |-> <<"pk">>] }

(***************************************************************************)
(* The entity and its caller                                               *)
(***************************************************************************)
NoResult == [value |-> undefined, thrown |-> NoError]

Idle == [op |-> "none"]

\* constructor: this.filters = {}
Init ==
    /\ filters = <<>>
    /\ pc = "idle"
    /\ call = Idle
    /\ result = NoResult
    /\ filterString = null
    /\ adapter = NoCall
    /\ log = <<>>

\* entity.addFilter(filterName, filterType, options)
AddFilter(filterName, filterType, options) ==
    /\ pc = "idle"
    /\ LET r == addFilter(filters, filterName, filterType, options)
       IN  /\ filters' = r.filters
           /\ result' = [value |-> undefined, thrown |-> r.thrown]
    /\ call' = [op |-> "addFilter", filterName |-> filterName,
                filterType |-> filterType, options |-> options]
    /\ log' = Append(log, [filterName |-> filterName, filterType |-> filterType,
                           options |-> options])
    /\ pc' = "returned"
    /\ UNCHANGED <<filterString, adapter>>

\* entity.getFilters()
GetFilters ==
    /\ pc = "idle"
    /\ result' = [value |-> getFilters(filters), thrown |-> NoError]
    /\ call' = [op |-> "getFilters"]
    /\ pc' = "returned"
    /\ UNCHANGED <<filters, filterString, adapter, log>>

\* entity.parseFilters(criteria)
ParseFilters(criteria) ==
    /\ pc = "idle"
    /\ LET r == parseFilters(filters, criteria)
       IN  /\ result' = [value |-> r.value, thrown |-> NoError]
           /\ filterString' = r.filterString
           /\ adapter' = r.adapter
    /\ call' = [op |-> "parseFilters", criteria |-> criteria]
    /\ pc' = "returned"
    /\ UNCHANGED <<filters, log>>

\* the caller takes the result of the call; the frame of the call is gone
Return ==
    /\ pc = "returned"
    /\ pc' = "idle"
    /\ call' = Idle
    /\ result' = NoResult
    /\ filterString' = null
    /\ adapter' = NoCall
    /\ UNCHANGED <<filters, log>>

\* the declaration of an entity's filters and their introspection
Next ==
    \/ \E filterName \in FilterNames, filterType \in TypeArgs, options \in OptionArgs :
          Len(log) < MaxCalls /\ AddFilter(filterName, filterType, options)
    \/ GetFilters
    \/ Return

Spec == Init /\ [][Next]_vars

\* an entity that declares its filters and is then queried
QueryNext ==
    \/ \E filterName \in FilterNames, filterType \in QueryTypeArgs :
          Len(log) < MaxDeclared
          /\ AddFilter(filterName, filterType, [realName |-> undefined])
    \/ \E criteria \in Criteria : ParseFilters(criteria)
    \/ Return

QuerySpec == Init /\ [][QueryNext]_vars

(***************************************************************************)
(* Vocabulary of the properties                                            *)
(***************************************************************************)
KeySet(object) == { object[i].key : i \in DOMAIN object }

Range(seq) == { seq[i] : i \in DOMAIN seq }

Returned(op) == pc = "returned" /\ call.op = op

SupportedTypes ==
    { filterTypes.BOOLEAN, filterTypes.TEXT, filterTypes.NUMBER, filterTypes.BINARY }

\* the type a declaration is made with: a filterType left out is NUMBER
DeclaredType(filterType) ==
    IF filterType = undefined THEN filterTypes.NUMBER ELSE filterType

\* the variant names of filter X for a type, as the registry table lists them
VariantNames(X, type) ==
    CASE type \in { filterTypes.BOOLEAN, filterTypes.BINARY } ->
            { X, X \o <<"_eql">>, X \o <<"_neql">> }
      [] type = filterTypes.TEXT ->
            { X, X \o <<"_eql">>, X \o <<"_neql">>, X \o <<"_in">>, X \o <<"_like">> }
      [] type = filterTypes.NUMBER ->
            { X, X \o <<"_eql">>, X \o <<"_neql">>, X \o <<"_gt">>, X \o <<"_gte">>,
              X \o <<"_lt">>, X \o <<"_lte">>, X \o <<"_in">> }

\* every name that is a variant of X for some type
AnyVariantNames(X) == UNION { VariantNames(X, type) : type \in SupportedTypes }

\* the declarations of the log that succeeded, in order
Declared == SelectSeq(log, LAMBDA d : DeclaredType(d.filterType) \in SupportedTypes)

\* the keys of a criteria, over all its groups
CriteriaKeys(criteria) ==
    IF criteria.typeOf = "object" THEN KeySet(criteria.elems)
    ELSE IF criteria.typeOf = "array"
         THEN UNION { KeySet(criteria.elems[i]) : i \in DOMAIN criteria.elems }
         ELSE {}

AllRegistered(criteria) == CriteriaKeys(criteria) \subseteq KeySet(filters)

\* the property names of a values object: a Group's keys, an array's indices
ValueKeys(values) ==
    IF values.typeOf = "array"
    THEN { <<d>> : d \in { e \in DOMAIN DigitValue : DigitValue[e] < Len(values.elems) } }
    ELSE KeySet(values.elems)

RECURSIVE Split(_, _)
\* the pieces of string s between the occurrences of the token sep
Split(s, sep) ==
    IF \A i \in DOMAIN s : s[i] # sep THEN <<s>>
    ELSE LET at == CHOOSE i \in DOMAIN s :
                       s[i] = sep /\ \A j \in 1..(i - 1) : s[j] # sep
         IN  <<SubSeq(s, 1, at - 1)>> \o Split(SubSeq(s, at + 1, Len(s)), sep)

\* the names of the placeholders ${name} and ${name:csv} of a template
PlaceholderNames(template) ==
    { SubSeq(template, i + 1,
             (CHOOSE j \in (i + 1)..Len(template) :
                 /\ template[j] \in { "}", ":csv" }
                 /\ \A k \in (i + 1)..(j - 1) : template[k] \notin { "}", ":csv" }) - 1) :
        i \in { h \in DOMAIN template : template[h] = "${" } }

\* the quoted column on the left-hand side of a template's comparison
Column(template) ==
    SubSeq(template, 2,
           (CHOOSE j \in 2..Len(template) :
               template[j] = "\"" /\ \A k \in 2..(j - 1) : template[k] # "\"") - 1)

\* the templates of the keys ks, in that order
Templates(ks) == [i \in DOMAIN ks |-> Get(filters, ks[i])]

\* clause is the templates ts joined by ' AND ' (the empty string for none)
IsAndJoin(clause, ts) ==
    IF ts = <<>> THEN clause = <<>> ELSE Split(clause, " AND ") = ts

\* the keys of a Group in the order they were supplied
Supplied(object) == [i \in DOMAIN object |-> object[i].key]

\* ks lists the keys of the Group: the array indices first, by ascending value,
\* then the other keys in the order they were supplied
IsEnumerationOrder(ks, object) ==
    /\ Len(ks) = Len(object)
    /\ Range(ks) = KeySet(object)
    /\ \A i, j \in DOMAIN ks : i < j =>
          \/ IsArrayIndex(ks[i]) /\ ~IsArrayIndex(ks[j])
          \/ IsArrayIndex(ks[i]) /\ IsArrayIndex(ks[j]) /\ IndexOf(ks[i]) < IndexOf(ks[j])
          \/ /\ ~IsArrayIndex(ks[i]) /\ ~IsArrayIndex(ks[j])
             /\ \E a, b \in DOMAIN object :
                   a < b /\ object[a].key = ks[i] /\ object[b].key = ks[j]

\* the orders in which the keys of a Group can be listed
Orders(object) ==
    { ks \in [DOMAIN object -> KeySet(object)] : Range(ks) = KeySet(object) }

UnknownFilterKey == <<"UnknownFilterKey">>

(***************************************************************************)
(* C1: whenever parseFilters is given a Group or GroupList with a key that *)
(* is not registered in the filter map, it fails with UnknownFilterKey and *)
(* gives no template to the adapter.                                       *)
(***************************************************************************)
C1_UnknownKeyFails ==
    (/\ Returned("parseFilters")
     /\ call.criteria.typeOf \in { "object", "array" }
     /\ ~AllRegistered(call.criteria))
    => (result.thrown = UnknownFilterKey /\ adapter = NoCall)

\* an unregistered key joined as the empty string into a clause the adapter gets
C1_Witness ==
    /\ Returned("parseFilters")
    /\ ~AllRegistered(call.criteria)
    /\ result.thrown = NoError
    /\ adapter # NoCall
    /\ " AND " \in Range(adapter.template)

(***************************************************************************)
(* C2: an addFilter call whose filterType is given and is none of BOOLEAN, *)
(* TEXT, NUMBER, BINARY throws NonSupportedFilterTypeError and leaves the  *)
(* filter map, keys and templates, as it was before the call.  (A          *)
(* filterType left out is the parameter's default, NUMBER.)                *)
(***************************************************************************)
C2_UnsupportedTypeRejected ==
    [][(/\ pc = "idle"
        /\ call'.op = "addFilter"
        /\ call'.filterType \notin SupportedTypes \cup { undefined })
       => (result'.thrown = NonSupportedFilterTypeError /\ filters' = filters)]_vars

\* a rejected declaration on an entity that already has filters
C2_Witness ==
    /\ Returned("addFilter")
    /\ call.filterType = <<"DATE">>
    /\ result.thrown = NonSupportedFilterTypeError
    /\ filters # <<>>

(***************************************************************************)
(* C3: every stored template binds exactly the placeholder named after its *)
(* variant, and every placeholder of the template parseFilters gives the   *)
(* adapter, for criteria whose keys are all registered, is a key of the    *)
(* values object given with it.                                            *)
(***************************************************************************)
C3_PlaceholdersBound ==
    /\ \A i \in DOMAIN filters :
          PlaceholderNames(filters[i].value) = { filters[i].key }
    /\ (/\ Returned("parseFilters")
        /\ AllRegistered(call.criteria)
        /\ adapter # NoCall)
       => PlaceholderNames(adapter.template) \subseteq ValueKeys(adapter.values)

\* the adapter is given a placeholder for which the values object has no key
C3_Witness ==
    /\ Returned("parseFilters")
    /\ AllRegistered(call.criteria)
    /\ adapter # NoCall
    /\ ~(PlaceholderNames(adapter.template) \subseteq ValueKeys(adapter.values))

(***************************************************************************)
(* C4 (as stated): for a GroupList of N >= 1 groups whose keys are all     *)
(* registered the clause is (g1) OR (g2) OR ... OR (gN): N pieces between  *)
(* N-1 ' OR ' separators, the i-th piece being the i-th group's AND-joined *)
(* templates wrapped in parentheses.                                       *)
(***************************************************************************)
C4_ParenthesizedGroups ==
    (/\ Returned("parseFilters")
     /\ call.criteria.typeOf = "array"
     /\ Len(call.criteria.elems) >= 1
     /\ AllRegistered(call.criteria))
    => LET groups == call.criteria.elems
           pieces == Split(filterString, " OR ")
       IN  /\ Len(pieces) = Len(groups)
           /\ \A i \in DOMAIN groups :
                 /\ Len(pieces[i]) >= 2
                 /\ Head(pieces[i]) = "("
                 /\ pieces[i][Len(pieces[i])] = ")"
                 /\ \E ks \in Orders(groups[i]) :
                       IsAndJoin(SubSeq(pieces[i], 2, Len(pieces[i]) - 1), Templates(ks))

(***************************************************************************)
(* C4 (amended): for a GroupList of N >= 1 groups whose keys are all       *)
(* registered the clause is g1 OR g2 OR ... OR gN: N pieces between N-1    *)
(* ' OR ' separators, the i-th piece being the i-th group's AND-joined     *)
(* templates as they are, with no parentheses around them.                 *)
(***************************************************************************)
C4_OrJoinedGroups ==
    (/\ Returned("parseFilters")
     /\ call.criteria.typeOf = "array"
     /\ Len(call.criteria.elems) >= 1
     /\ AllRegistered(call.criteria))
    => LET groups == call.criteria.elems
           pieces == Split(filterString, " OR ")
       IN  /\ Len(pieces) = Len(groups)
           /\ \A i \in DOMAIN groups :
                 \E ks \in Orders(groups[i]) : IsAndJoin(pieces[i], Templates(ks))

\* two registered groups, the first of two keys, compiled and given to the adapter
C4_Witness ==
    /\ Returned("parseFilters")
    /\ call.criteria.typeOf = "array"
    /\ Len(call.criteria.elems) = 2
    /\ Len(call.criteria.elems[1]) = 2
    /\ Len(call.criteria.elems[2]) = 1
    /\ AllRegistered(call.criteria)
    /\ adapter.template = filterString
    /\ Len(Split(filterString, " OR ")) = 2

(***************************************************************************)
(* C5: for every filter name X that has been declared, the variants of X   *)
(* in the filter map are exactly the variant set of the type of the last   *)
(* declaration of X, and getFilters reports no other variant of X.         *)
(***************************************************************************)
C5_LastDeclarationWins ==
    \A X \in FilterNames :
        (\E i \in DOMAIN Declared : Declared[i].filterName = X)
        => LET last == CHOOSE i \in DOMAIN Declared :
                          /\ Declared[i].filterName = X
                          /\ \A j \in DOMAIN Declared :
                                j > i => Declared[j].filterName # X
               type == DeclaredType(Declared[last].filterType)
           IN  /\ KeySet(filters) \cap AnyVariantNames(X) = VariantNames(X, type)
               /\ Returned("getFilters")
                  => Range(result.value) \cap AnyVariantNames(X) = VariantNames(X, type)

\* getFilters reports a variant of an earlier declaration of the name
C5_Witness ==
    /\ Returned("getFilters")
    /\ Len(Declared) = 2
    /\ Declared[1].filterName = Declared[2].filterName
    /\ Declared[2].filterType = filterTypes.BOOLEAN
    /\ Declared[1].filterName \o <<"_gt">> \in Range(result.value)

(***************************************************************************)
(* C6: after a single declaration of X on the empty filter map, the filter *)
(* map holds, and getFilters returns, exactly the variant set of the type: *)
(* 3 names for BOOLEAN and BINARY, 5 for TEXT, 8 for NUMBER, whatever the  *)
(* options.                                                                *)
(***************************************************************************)
C6_VariantSets ==
    Len(Declared) = 1
    => LET X == Declared[1].filterName
           type == DeclaredType(Declared[1].filterType)
       IN  /\ KeySet(filters) = VariantNames(X, type)
           /\ Len(filters) =
                 CASE type \in { filterTypes.BOOLEAN, filterTypes.BINARY } -> 3
                   [] type = filterTypes.TEXT -> 5
                   [] type = filterTypes.NUMBER -> 8
           /\ Returned("getFilters")
              => /\ Range(result.value) = VariantNames(X, type)
                 /\ Len(result.value) = Len(filters)

\* getFilters returns the five variants of a TEXT filter
C6_Witness ==
    /\ Returned("getFilters")
    /\ Len(Declared) = 1
    /\ Declared[1].filterType = filterTypes.TEXT
    /\ Declared[1].options.realName = <<"col">>
    /\ Len(result.value) = 5

\* the criteria with every value replaced by v, its keys and groups kept
WithValues(criteria, v) ==
    IF criteria.typeOf = "object"
    THEN [criteria EXCEPT !.elems = GroupOf(Supplied(criteria.elems), v)]
    ELSE IF criteria.typeOf = "array"
         THEN [criteria EXCEPT !.elems =
                  [i \in DOMAIN criteria.elems |->
                      GroupOf(Supplied(criteria.elems[i]), v)]]
         ELSE criteria

(***************************************************************************)
(* C7: the template parseFilters gives the adapter is the one it gives for *)
(* the same keys and groups with any other values; no criteria value       *)
(* occurs in the template, and the values go to the adapter as the values  *)
(* argument, which is the criteria itself.                                 *)
(***************************************************************************)
C7_TemplateIgnoresValues ==
    Returned("parseFilters")
    => /\ \A v \in Values :
             /\ parseFilters(filters, WithValues(call.criteria, v)).adapter.template
                   = adapter.template
             /\ parseFilters(filters, WithValues(call.criteria, v)).filterString
                   = filterString
       /\ \A i \in DOMAIN filterString : <<filterString[i]>> \notin Values
       /\ adapter # NoCall => adapter.values = call.criteria

\* a compiled clause for criteria that carry the value v2
C7_Witness ==
    /\ Returned("parseFilters")
    /\ call.criteria.typeOf = "object"
    /\ Len(call.criteria.elems) = 2
    /\ call.criteria.elems[1].value = <<"v2">>
    /\ AllRegistered(call.criteria)
    /\ adapter.template = filterString
    /\ adapter.values = call.criteria

(***************************************************************************)
(* C8: for an empty Group ({}) and for an empty GroupList ([]), whatever   *)
(* the filter map, parseFilters returns the empty string, with no WHERE    *)
(* prefix, and does not call the adapter.                                  *)
(***************************************************************************)
C8_EmptyCriteria ==
    (/\ Returned("parseFilters")
     /\ call.criteria.typeOf \in { "object", "array" }
     /\ call.criteria.elems = <<>>)
    => (result = [value |-> <<>>, thrown |-> NoError] /\ adapter = NoCall)

\* an empty GroupList compiled by an entity that has filters
C8_Witness ==
    /\ Returned("parseFilters")
    /\ call.criteria = [typeOf |-> "array", elems |-> <<>>]
    /\ filters # <<>>
    /\ result.value = <<>>

(***************************************************************************)
(* C9 (as stated): for a Group of k >= 1 keys, all registered, the clause  *)
(* is the k templates in the order the keys were supplied, between k-1     *)
(* ' AND ' separators, with no OR.                                         *)
(***************************************************************************)
C9_AndJoinedInSuppliedOrder ==
    (/\ Returned("parseFilters")
     /\ call.criteria.typeOf = "object"
     /\ Len(call.criteria.elems) >= 1
     /\ AllRegistered(call.criteria))
    => /\ Split(filterString, " AND ") = Templates(Supplied(call.criteria.elems))
       /\ " OR " \notin Range(filterString)

(***************************************************************************)
(* C9 (amended): for a Group of k >= 1 keys, all registered, the clause is *)
(* the k templates in the order Object.keys lists the Group's keys (the    *)
(* keys that are array indices first, by ascending value, then the other   *)
(* keys in the order they were supplied), between k-1 ' AND ' separators,  *)
(* with no OR.                                                             *)
(***************************************************************************)
C9_AndJoinedInKeyOrder ==
    (/\ Returned("parseFilters")
     /\ call.criteria.typeOf = "object"
     /\ Len(call.criteria.elems) >= 1
     /\ AllRegistered(call.criteria))
    => /\ \E ks \in Orders(call.criteria.elems) :
             /\ IsEnumerationOrder(ks, call.criteria.elems)
             /\ Split(filterString, " AND ") = Templates(ks)
       /\ Len(Split(filterString, " AND ")) = Len(call.criteria.elems)
       /\ " OR " \notin Range(filterString)

\* {X_gte: v, X_lte: v} compiled on a NUMBER filter X
C9_Witness ==
    /\ Returned("parseFilters")
    /\ call.criteria.typeOf = "object"
    /\ \E X \in FilterNames :
          /\ Supplied(call.criteria.elems) = << X \o <<"_gte">>, X \o <<"_lte">> >>
          /\ filterString = Compare(X, ">=", X) \o <<" AND ">> \o Compare(X, "<=", X)
    /\ adapter.template = filterString

(***************************************************************************)
(* C10: after a declaration with options.realName different from the       *)
(* filter name, every variant template of the declared type, _in and _like *)
(* included, compares the real column.                                     *)
(***************************************************************************)
C10_RealColumnEverywhere ==
    (/\ Returned("addFilter")
     /\ result.thrown = NoError
     /\ Truthy(call.options.realName)
     /\ call.options.realName # call.filterName)
    => \A key \in VariantNames(call.filterName, DeclaredType(call.filterType)) :
          Column(Get(filters, key)) = call.options.realName

\* the _in variant of a filter declared on column col compares the filter name
C10_Witness ==
    /\ Returned("addFilter")
    /\ call.options.realName = <<"col">>
    /\ Column(Get(filters, call.filterName)) = <<"col">>
    /\ Get(filters, call.filterName \o <<"_in">>) # undefined
    /\ Column(Get(filters, call.filterName \o <<"_in">>)) = call.filterName

====
